---------------------------- MODULE Spec2Model ----------------------------
(***************************************************************************)
(* PolarSSL: elliptic curves over GF(p) (ecp.c), the SSL session cache     *)
(* (ssl_cache.c) and the AES-NI probe.                                     *)
(*                                                                         *)
(* An mpi is modelled by the integer it holds.  The five named curves are  *)
(* 192..521 bit curves; their parameter tables are replaced by curves of   *)
(* the same shape (y^2 = x^3 - 3x + b over a prime field, prime order,     *)
(* P-521 over a Mersenne prime 2^pbits - 1) that keep the size relations   *)
(* the reduction code depends on:                                          *)
(*      2 * bits(p192, p224, p256) <= pbits(p521) < 2 * bits(p384).        *)
(***************************************************************************)
EXTENDS Integers, Sequences, FiniteSets, TLC

VARIABLES grp, call, build, sessions, timeout, max_entries, now, ccall,
          flags, cpu, acall

vars == <<grp, call, build, sessions, timeout, max_entries, now, ccall,
          flags, cpu, acall>>

ecpVars == <<grp, call, build>>
cacheVars == <<sessions, timeout, max_entries, now, ccall>>
aesVars == <<flags, cpu, acall>>

-----------------------------------------------------------------------------
(* Bounds of the model *)

\* scalars handed to ecp_mul are 0..MaxK
MaxK == 9
\* input coordinates are within CoordSpan of either end of [0, p)
CoordSpan == 3
\* the clock runs from 0 to MaxTime
MaxTime == 2
\* session id bytes are 0..MaxByte
MaxByte == 1
\* master secrets are 1..MaxMaster
MaxMaster == 2
\* ssl_cache_set_timeout is called with -1..MaxTimeout
MaxTimeout == 1
\* ssl_cache_set_max_entries is called with -1..MaxEntries
MaxEntries == 2
\* calls of aesni_supported in one process
MaxCalls == 3
\* memory runs out at the statement after the first 0..MaxFuel
MaxFuel == 100
\* scalars handed to ecp_mul when memory runs out are 0..MaxShortK
MaxShortK == 3
\* ecp_modp is handed values up to MaxOver outside the range it accepts
MaxOver == 2

-----------------------------------------------------------------------------
(* Return codes *)

RET_OK == "0"
POLARSSL_ERR_ECP_GENERIC == "POLARSSL_ERR_ECP_GENERIC"
POLARSSL_ERR_MPI_BAD_INPUT_DATA == "POLARSSL_ERR_MPI_BAD_INPUT_DATA"
POLARSSL_ERR_MPI_MALLOC_FAILED == "POLARSSL_ERR_MPI_MALLOC_FAILED"
POLARSSL_ERR_MPI_NEGATIVE_VALUE == "POLARSSL_ERR_MPI_NEGATIVE_VALUE"
POLARSSL_ERR_MPI_DIVISION_BY_ZERO == "POLARSSL_ERR_MPI_DIVISION_BY_ZERO"
POLARSSL_ERR_MPI_NOT_ACCEPTABLE == "POLARSSL_ERR_MPI_NOT_ACCEPTABLE"

\* memory never runs out
NoFault == -1

-----------------------------------------------------------------------------
(* The mpi primitives ecp.c consumes *)

Abs(a) == IF a < 0 THEN -a ELSE a

RECURSIVE Pow2(_)
Pow2(e) == IF e = 0 THEN 1 ELSE 2 * Pow2(e - 1)

\* number of bits of |N| (0 for N = 0)
RECURSIVE mpi_msb(_)
mpi_msb(N) == IF N = 0 THEN 0 ELSE 1 + mpi_msb(Abs(N) \div 2)

mpi_get_bit(N, pos) == (Abs(N) \div Pow2(pos)) % 2

\* sign and magnitude: shifting moves the magnitude
mpi_shift_r(N, count) ==
    IF N < 0 THEN -(Abs(N) \div Pow2(count)) ELSE N \div Pow2(count)

mpi_shift_l(N, count) == N * Pow2(count)

\* R = A mod B, in [0, B)
mpi_mod_mpi(A, B) ==
    IF B < 0 THEN [ret |-> POLARSSL_ERR_MPI_NEGATIVE_VALUE, N |-> A]
    ELSE IF B = 0 THEN [ret |-> POLARSSL_ERR_MPI_DIVISION_BY_ZERO, N |-> A]
    ELSE [ret |-> RET_OK, N |-> A % B]

\* X = A^-1 mod N; fails unless gcd(A, N) = 1
mpi_inv_mod(X, A, N) ==
    IF N <= 0 THEN [ret |-> POLARSSL_ERR_MPI_BAD_INPUT_DATA, N |-> X]
    ELSE IF \E x \in 0 .. N - 1 : (A * x) % N = 1 % N
         THEN [ret |-> RET_OK,
               N |-> CHOOSE x \in 0 .. N - 1 : (A * x) % N = 1 % N]
         ELSE [ret |-> POLARSSL_ERR_MPI_NOT_ACCEPTABLE, N |-> X]

-----------------------------------------------------------------------------
(* Points and groups *)

\* an mpi after mpi_init / mpi_free holds no limbs and compares as 0

Point(x, y) == [is_zero |-> FALSE, X |-> x, Y |-> y]

ecp_point_init == [is_zero |-> TRUE, X |-> 0, Y |-> 0]

ecp_point_free(pt) == [is_zero |-> TRUE, X |-> 0, Y |-> 0]

ecp_set_zero(pt) == [is_zero |-> TRUE, X |-> 0, Y |-> 0]

ecp_copy(P, Q) ==
    IF Q.is_zero THEN ecp_set_zero(P)
    ELSE [is_zero |-> Q.is_zero, X |-> Q.X, Y |-> Q.Y]

ecp_point_read_string(P, x, y) == [is_zero |-> FALSE, X |-> x, Y |-> y]

ecp_group_init ==
    [P |-> 0, B |-> 0, G |-> ecp_point_init, N |-> 0,
     modp |-> "NULL", pbits |-> 0]

\* modp and pbits are not touched
ecp_group_free(g) ==
    [g EXCEPT !.P = 0, !.B = 0, !.G = ecp_point_free(g.G),
              !.N = 0]

ecp_group_read_string(g, p, b, gx, gy, n) ==
    [g EXCEPT !.P = p, !.B = b, !.G = ecp_point_read_string(g.G, gx, gy),
              !.N = n]

-----------------------------------------------------------------------------
(* Fast reduction modulo the P-521 prime *)

\* the library is built with 8-bit limbs (POLARSSL_HAVE_INT8) or with wider
\* ones; the first call into ecp.c shows which
Builds == {"POLARSSL_HAVE_INT8", "POLARSSL_HAVE_INT32"}

NoBuild == "unknown"

\* bits in a limb (t_uint): 8, or 16, 32, 64.  The stand-ins keep what the
\* top limb of a P521_BITS value holds: 1 bit of the narrow limb (521 mod 8)
\* and P521_MASK, less than a limb, of the wide one (521 mod 32 = 9 bits)
biL_INT8 == 2
biL_INT32 == 4

biL == IF build = "POLARSSL_HAVE_INT8" THEN biL_INT8 ELSE biL_INT32
\* the literal 521: the bit length of the P-521 stand-in prime
P521_BITS == 7
\* limbs needed for a value of P521_BITS bits
P521_SIZE_INT == P521_BITS \div biL + 1
\* bits kept in the most significant limb: 0x01FF = 2^(521 mod 32) - 1 in
\* every build, as no build defines POLARSS_HAVE_INT8
P521_MASK == 7

\* limbs in use by N; N->n is at least this
Limbs(N) == (mpi_msb(N) + biL - 1) \div biL

\* the low P521_SIZE_INT limbs of N, the top one masked
P521_M(N) ==
    LET low == Abs(N) % Pow2(biL * (P521_SIZE_INT - 1))
        top == (Abs(N) \div Pow2(biL * (P521_SIZE_INT - 1))) % Pow2(biL)
    IN  low + Pow2(biL * (P521_SIZE_INT - 1)) * (top % (P521_MASK + 1))

ecp_mod_p521(N) ==
    IF Limbs(N) < P521_SIZE_INT
    THEN [ret |-> RET_OK, N |-> N]
    ELSE LET M == P521_M(N)
             S == mpi_shift_r(N, P521_BITS)
         IN  [ret |-> RET_OK, N |-> Abs(S) + Abs(M)]

CallModp(g, N) ==
    IF g.modp = "ecp_mod_p521" THEN ecp_mod_p521(N)
    ELSE [ret |-> RET_OK, N |-> N]

\* while( N < 0 ) N += P
RECURSIVE AddWhileNegative(_, _)
AddWhileNegative(N, P) == IF N < 0 THEN AddWhileNegative(N + P, P) ELSE N

\* while( N >= P ) N -= P
RECURSIVE SubWhileNotBelow(_, _)
SubWhileNotBelow(N, P) == IF N >= P THEN SubWhileNotBelow(N - P, P) ELSE N

ecp_modp(N, g) ==
    IF g.modp = "NULL" THEN mpi_mod_mpi(N, g.P)
    ELSE IF N < 0 \/ mpi_msb(N) > 2 * g.pbits
    THEN [ret |-> POLARSSL_ERR_ECP_GENERIC, N |-> N]
    ELSE LET m == CallModp(g, N)
         IN  IF m.ret # RET_OK THEN m
             ELSE [ret |-> RET_OK,
                   N |-> SubWhileNotBelow(AddWhileNegative(m.N, g.P), g.P)]

MOD_MUL(N, g) == ecp_modp(N, g)

\* mutant: no reduction after a subtraction
MOD_SUB_None(N, g) == [ret |-> RET_OK, N |-> N]

MOD_SUB(N, g) == [ret |-> RET_OK, N |-> AddWhileNegative(N, g.P)]

MOD_ADD(N, g) == [ret |-> RET_OK, N |-> SubWhileNotBelow(N, g.P)]

-----------------------------------------------------------------------------
(* Straight-line mpi code: one tuple per statement, run in order; the first *)
(* statement that fails ends the run (MPI_CHK: goto cleanup)                *)

Set(regs, r, v) == [regs EXCEPT ![r] = v]

Done(regs, r, res) == [ret |-> res.ret, regs |-> Set(regs, r, res.N)]

Step(ins, g, regs) ==
    CASE ins[1] = "mpi_mul_mpi" ->
            [ret |-> RET_OK, regs |-> Set(regs, ins[2], regs[ins[3]] * regs[ins[4]])]
      [] ins[1] = "mpi_add_mpi" ->
            [ret |-> RET_OK, regs |-> Set(regs, ins[2], regs[ins[3]] + regs[ins[4]])]
      [] ins[1] = "mpi_sub_mpi" ->
            [ret |-> RET_OK, regs |-> Set(regs, ins[2], regs[ins[3]] - regs[ins[4]])]
      [] ins[1] = "mpi_mul_int" ->
            [ret |-> RET_OK, regs |-> Set(regs, ins[2], regs[ins[3]] * ins[4])]
      [] ins[1] = "mpi_copy" ->
            [ret |-> RET_OK, regs |-> Set(regs, ins[2], regs[ins[3]])]
      [] ins[1] = "mpi_lset" ->
            [ret |-> RET_OK, regs |-> Set(regs, ins[2], ins[3])]
      [] ins[1] = "mpi_shift_l" ->
            [ret |-> RET_OK, regs |-> Set(regs, ins[2], mpi_shift_l(regs[ins[2]], ins[3]))]
      [] ins[1] = "mpi_shift_r" ->
            [ret |-> RET_OK, regs |-> Set(regs, ins[2], mpi_shift_r(regs[ins[2]], ins[3]))]
      [] ins[1] = "add_P_if_odd" ->
            [ret |-> RET_OK,
             regs |-> Set(regs, ins[2],
                          IF mpi_get_bit(regs[ins[2]], 0) = 1
                          THEN regs[ins[2]] + g.P ELSE regs[ins[2]])]
      [] ins[1] = "mpi_inv_mod" ->
            Done(regs, ins[2], mpi_inv_mod(regs[ins[2]], regs[ins[3]], g.P))
      [] ins[1] = "MOD_MUL" -> Done(regs, ins[2], MOD_MUL(regs[ins[2]], g))
      [] ins[1] = "MOD_SUB" -> Done(regs, ins[2], MOD_SUB(regs[ins[2]], g))
      [] ins[1] = "MOD_ADD" -> Done(regs, ins[2], MOD_ADD(regs[ins[2]], g))

\* the statement reaches an MPI primitive that may ask for memory: the
\* MOD_ macros and the odd test of ecp_double_jac call one only when they
\* have something to do
CallsMpi(ins, g, regs) ==
    CASE ins[1] = "add_P_if_odd" -> mpi_get_bit(regs[ins[2]], 0) = 1
      [] ins[1] = "MOD_SUB" -> regs[ins[2]] < 0
      [] ins[1] = "MOD_ADD" -> regs[ins[2]] >= g.P
      [] ins[1] = "MOD_MUL" ->
            \/ g.modp = "NULL"
            \/ /\ regs[ins[2]] >= 0
               /\ mpi_msb(regs[ins[2]]) <= 2 * g.pbits
               /\ \/ g.modp = "ecp_mod_p521" /\ Limbs(regs[ins[2]]) >= P521_SIZE_INT
                  \/ CallModp(g, regs[ins[2]]).N < 0
                  \/ CallModp(g, regs[ins[2]]).N >= g.P
      [] OTHER -> TRUE

\* fuel counts the statements that still get the memory they ask for: at
\* fuel 0 the next one fails, and memory is back for those after it
Spend(fuel) == IF fuel > 0 THEN fuel - 1 ELSE NoFault

RECURSIVE Run(_, _, _, _, _)
Run(prog, i, g, regs, fuel) ==
    IF i > Len(prog) THEN [ret |-> RET_OK, regs |-> regs, fuel |-> fuel]
    ELSE IF fuel = 0 /\ CallsMpi(prog[i], g, regs)
    THEN [ret |-> POLARSSL_ERR_MPI_MALLOC_FAILED, regs |-> regs, fuel |-> NoFault]
    ELSE LET Left == IF CallsMpi(prog[i], g, regs) THEN Spend(fuel) ELSE fuel
             After(s) ==
                 IF s.ret # RET_OK THEN [ret |-> s.ret, regs |-> s.regs, fuel |-> Left]
                 ELSE Run(prog, i + 1, g, s.regs, Left)
         IN  After(Step(prog[i], g, regs))

-----------------------------------------------------------------------------
(* Jacobian coordinates.  Every function returns its code, the point it     *)
(* wrote, the fuel it left and the local MPIs it did not free               *)

Jac(x, y, z) == [X |-> x, Y |-> y, Z |-> z]

ecp_ptjac_init == Jac(0, 0, 0)

\* the point held in the registers RX, RY, RZ at the end of a run
JacOut(r, live) ==
    [ret |-> r.ret, R |-> Jac(r.regs.RX, r.regs.RY, r.regs.RZ),
     fuel |-> r.fuel, live |-> live]

PtjacCopyCode ==
    << <<"mpi_copy", "RX", "PX">>,
       <<"mpi_copy", "RY", "PY">>,
       <<"mpi_copy", "RZ", "PZ">> >>

ecp_ptjac_copy(R, P, fuel) ==
    JacOut(Run(PtjacCopyCode, 1, ecp_group_init,
               [PX |-> P.X, PY |-> P.Y, PZ |-> P.Z,
                RX |-> R.X, RY |-> R.Y, RZ |-> R.Z], fuel), {})

PtjacSetZeroCode ==
    << <<"mpi_lset", "RX", 1>>,
       <<"mpi_lset", "RY", 1>>,
       <<"mpi_lset", "RZ", 0>> >>

ecp_ptjac_set_zero(P, fuel) ==
    JacOut(Run(PtjacSetZeroCode, 1, ecp_group_init,
               [RX |-> P.X, RY |-> P.Y, RZ |-> P.Z], fuel), {})

AffToJacCode ==
    << <<"mpi_copy", "RX", "AX">>,
       <<"mpi_copy", "RY", "AY">>,
       <<"mpi_lset", "RZ", 1>> >>

\* mutant: the zero point is lifted like any other
ecp_aff_to_jac_NoZero(jac, aff, fuel) ==
    JacOut(Run(AffToJacCode, 1, ecp_group_init,
               [AX |-> aff.X, AY |-> aff.Y,
                RX |-> jac.X, RY |-> jac.Y, RZ |-> jac.Z], fuel), {})

ecp_aff_to_jac(jac, aff, fuel) ==
    IF aff.is_zero THEN ecp_ptjac_set_zero(jac, fuel)
    ELSE JacOut(Run(AffToJacCode, 1, ecp_group_init,
                    [AX |-> aff.X, AY |-> aff.Y,
                     RX |-> jac.X, RY |-> jac.Y, RZ |-> jac.Z], fuel), {})

JacToAffLocals == {"Zi", "ZZi", "T"}

JacToAffFreed == {"Zi", "ZZi", "T"}

JacToAffCode ==
    << <<"mpi_inv_mod", "Zi", "JZ">>,
       <<"mpi_mul_mpi", "ZZi", "Zi", "Zi">>, <<"MOD_MUL", "ZZi">>,
       <<"mpi_mul_mpi", "AX", "JX", "ZZi">>, <<"MOD_MUL", "AX">>,
       <<"mpi_mul_mpi", "AY", "JY", "ZZi">>, <<"MOD_MUL", "AY">>,
       <<"mpi_mul_mpi", "AY", "AY", "Zi">>,  <<"MOD_MUL", "AY">> >>

ecp_jac_to_aff(g, aff, jac, fuel) ==
    IF jac.Z = 0
    THEN [ret |-> RET_OK, R |-> ecp_set_zero(aff), fuel |-> fuel, live |-> {}]
    ELSE LET Out(r) ==
                 [ret |-> r.ret,
                  R |-> [is_zero |-> FALSE, X |-> r.regs.AX, Y |-> r.regs.AY],
                  fuel |-> r.fuel, live |-> JacToAffLocals \ JacToAffFreed]
         IN  Out(Run(JacToAffCode, 1, g,
                     [JX |-> jac.X, JY |-> jac.Y, JZ |-> jac.Z,
                      Zi |-> 0, ZZi |-> 0, T |-> 0,
                      AX |-> aff.X, AY |-> aff.Y], fuel))

DoubleJacLocals == {"T1", "T2", "T3", "X", "Y", "Z"}

DoubleJacFreed == {"T1", "T2", "T3", "X", "Y", "Z"}

DoubleJacCode ==
    << <<"mpi_mul_mpi", "T1", "PZ", "PZ">>, <<"MOD_MUL", "T1">>,
       <<"mpi_sub_mpi", "T2", "PX", "T1">>, <<"MOD_SUB", "T2">>,
       <<"mpi_add_mpi", "T1", "PX", "T1">>, <<"MOD_ADD", "T1">>,
       <<"mpi_mul_mpi", "T2", "T2", "T1">>, <<"MOD_MUL", "T2">>,
       <<"mpi_mul_int", "T2", "T2", 3>>,    <<"MOD_ADD", "T2">>,
       <<"mpi_copy",    "Y",  "PY">>,
       <<"mpi_shift_l", "Y",  1>>,          <<"MOD_ADD", "Y">>,
       <<"mpi_mul_mpi", "Z",  "Y",  "PZ">>, <<"MOD_MUL", "Z">>,
       <<"mpi_mul_mpi", "Y",  "Y",  "Y">>,  <<"MOD_MUL", "Y">>,
       <<"mpi_mul_mpi", "T3", "Y",  "PX">>, <<"MOD_MUL", "T3">>,
       <<"mpi_mul_mpi", "Y",  "Y",  "Y">>,  <<"MOD_MUL", "Y">>,
       <<"add_P_if_odd", "Y">>,
       <<"mpi_shift_r", "Y",  1>>,
       <<"mpi_mul_mpi", "X",  "T2", "T2">>, <<"MOD_MUL", "X">>,
       <<"mpi_copy",    "T1", "T3">>,
       <<"mpi_shift_l", "T1", 1>>,          <<"MOD_ADD", "T1">>,
       <<"mpi_sub_mpi", "X",  "X",  "T1">>, <<"MOD_SUB", "X">>,
       <<"mpi_sub_mpi", "T1", "T3", "X">>,  <<"MOD_SUB", "T1">>,
       <<"mpi_mul_mpi", "T1", "T1", "T2">>, <<"MOD_MUL", "T1">>,
       <<"mpi_sub_mpi", "Y",  "T1", "Y">>,  <<"MOD_SUB", "Y">>,
       <<"mpi_copy", "RX", "X">>,
       <<"mpi_copy", "RY", "Y">>,
       <<"mpi_copy", "RZ", "Z">> >>

ecp_double_jac(g, R, P, fuel) ==
    IF P.Z = 0 THEN ecp_ptjac_set_zero(R, fuel)
    ELSE JacOut(Run(DoubleJacCode, 1, g,
                    [PX |-> P.X, PY |-> P.Y, PZ |-> P.Z,
                     T1 |-> 0, T2 |-> 0, T3 |-> 0,
                     X |-> 0, Y |-> 0, Z |-> 0,
                     RX |-> R.X, RY |-> R.Y, RZ |-> R.Z], fuel),
                DoubleJacLocals \ DoubleJacFreed)

AddMixedLocals == {"T1", "T2", "T3", "T4", "X", "Y", "Z"}

AddMixedFreed == {"T1", "T2", "T3", "T4", "X", "Y", "Z"}

AddMixedCode1 ==
    << <<"mpi_mul_mpi", "T1", "PZ", "PZ">>, <<"MOD_MUL", "T1">>,
       <<"mpi_mul_mpi", "T2", "T1", "PZ">>, <<"MOD_MUL", "T2">>,
       <<"mpi_mul_mpi", "T1", "T1", "QX">>, <<"MOD_MUL", "T1">>,
       <<"mpi_mul_mpi", "T2", "T2", "QY">>, <<"MOD_MUL", "T2">>,
       <<"mpi_sub_mpi", "T1", "T1", "PX">>, <<"MOD_SUB", "T1">>,
       <<"mpi_sub_mpi", "T2", "T2", "PY">>, <<"MOD_SUB", "T2">> >>

AddMixedCode2 ==
    << <<"mpi_mul_mpi", "Z",  "PZ", "T1">>, <<"MOD_MUL", "Z">>,
       <<"mpi_mul_mpi", "T3", "T1", "T1">>, <<"MOD_MUL", "T3">>,
       <<"mpi_mul_mpi", "T4", "T3", "T1">>, <<"MOD_MUL", "T4">>,
       <<"mpi_mul_mpi", "T3", "T3", "PX">>, <<"MOD_MUL", "T3">>,
       <<"mpi_mul_int", "T1", "T3", 2>>,    <<"MOD_ADD", "T1">>,
       <<"mpi_mul_mpi", "X",  "T2", "T2">>, <<"MOD_MUL", "X">>,
       <<"mpi_sub_mpi", "X",  "X",  "T1">>, <<"MOD_SUB", "X">>,
       <<"mpi_sub_mpi", "X",  "X",  "T4">>, <<"MOD_SUB", "X">>,
       <<"mpi_sub_mpi", "T3", "T3", "X">>,  <<"MOD_SUB", "T3">>,
       <<"mpi_mul_mpi", "T3", "T3", "T2">>, <<"MOD_MUL", "T3">>,
       <<"mpi_mul_mpi", "T4", "T4", "PY">>, <<"MOD_MUL", "T4">>,
       <<"mpi_sub_mpi", "Y",  "T3", "T4">>, <<"MOD_SUB", "Y">>,
       <<"mpi_copy", "RX", "X">>,
       <<"mpi_copy", "RY", "Y">>,
       <<"mpi_copy", "RZ", "Z">> >>

\* mutant: equal X always taken for equal points
AddMixedSameX_Doubles(g, R, P, T2, fuel) == ecp_double_jac(g, R, P, fuel)

\* mutant: equal X always taken for opposite points
AddMixedSameX_Zero(g, R, P, T2, fuel) == ecp_ptjac_set_zero(R, fuel)

\* T1 = 0, the operands have the same X: they are equal (T2 = 0) or opposite
AddMixedSameX(g, R, P, T2, fuel) ==
    IF T2 = 0 THEN ecp_double_jac(g, R, P, fuel)
    ELSE ecp_ptjac_set_zero(R, fuel)

ecp_add_mixed(g, R, P, Q, fuel) ==
    IF P.Z = 0 THEN ecp_aff_to_jac(R, Q, fuel)
    ELSE IF Q.is_zero THEN ecp_ptjac_copy(R, P, fuel)
    ELSE LET Cleanup(d) ==
                 [d EXCEPT !.live = d.live \cup (AddMixedLocals \ AddMixedFreed)]
             After(r1) ==
                 IF r1.ret # RET_OK
                 THEN [ret |-> r1.ret, R |-> R, fuel |-> r1.fuel,
                       live |-> AddMixedLocals \ AddMixedFreed]
                 ELSE IF r1.regs.T1 = 0
                 THEN Cleanup(AddMixedSameX(g, R, P, r1.regs.T2, r1.fuel))
                 ELSE JacOut(Run(AddMixedCode2, 1, g, r1.regs, r1.fuel),
                             AddMixedLocals \ AddMixedFreed)
         IN  After(Run(AddMixedCode1, 1, g,
                       [PX |-> P.X, PY |-> P.Y, PZ |-> P.Z,
                        QX |-> Q.X, QY |-> Q.Y,
                        T1 |-> 0, T2 |-> 0, T3 |-> 0, T4 |-> 0,
                        X |-> 0, Y |-> 0, Z |-> 0,
                        RX |-> R.X, RY |-> R.Y, RZ |-> R.Z], fuel))

-----------------------------------------------------------------------------
(* The public operations.  trace lists the point-level calls made, each     *)
(* with its return code, the Jacobian point it left behind and the locals   *)
(* it did not free                                                           *)

Called(op, res) == [op |-> op, ret |-> res.ret, J |-> res.R, live |-> res.live]

\* ecp_jac_to_aff writes the affine point: the trace keeps the point it read
Projection(a, J) == [op |-> "ecp_jac_to_aff", ret |-> a.ret, J |-> J, live |-> a.live]

AddLocals == {"J"}

AddFreed == {"J"}

ecp_add(g, R, P, Q, fuel) ==
    LET Projected(t2, j2, a) ==
            [ret |-> a.ret, R |-> a.R, trace |-> Append(t2, Projection(a, j2.R)),
             fuel |-> a.fuel, live |-> AddLocals \ AddFreed]
        Added(t1, j2) ==
            IF j2.ret # RET_OK
            THEN [ret |-> j2.ret, R |-> R,
                  trace |-> Append(t1, Called("ecp_add_mixed", j2)),
                  fuel |-> j2.fuel, live |-> AddLocals \ AddFreed]
            ELSE Projected(Append(t1, Called("ecp_add_mixed", j2)), j2,
                           ecp_jac_to_aff(g, R, j2.R, j2.fuel))
        Lifted(j1) ==
            IF j1.ret # RET_OK
            THEN [ret |-> j1.ret, R |-> R, trace |-> << Called("ecp_aff_to_jac", j1) >>,
                  fuel |-> j1.fuel, live |-> AddLocals \ AddFreed]
            ELSE Added(<< Called("ecp_aff_to_jac", j1) >>,
                       ecp_add_mixed(g, j1.R, j1.R, Q, j1.fuel))
    IN  Lifted(ecp_aff_to_jac(ecp_ptjac_init, P, fuel))

\* mutant: the copy always takes Q[0]
CopySource_Fixed(m, pos) == 0

\* the index of the point the turn at bit pos keeps
CopySource(m, pos) == mpi_get_bit(m, pos)

\* one turn of the loop of ecp_mul at bit pos, and the turns after it
RECURSIVE MulLoop(_, _, _, _, _, _, _)
MulLoop(g, m, P, Q, pos, trace, fuel) ==
    LET Copied(Q1, t3, c) ==
            IF c.ret # RET_OK
            THEN [ret |-> c.ret, Q |-> Q1, trace |-> t3, fuel |-> c.fuel]
            ELSE IF pos = 0
            THEN [ret |-> RET_OK, Q |-> [Q1 EXCEPT ![0] = c.R], trace |-> t3,
                  fuel |-> c.fuel]
            ELSE MulLoop(g, m, P, [Q1 EXCEPT ![0] = c.R], pos - 1, t3, c.fuel)
        Selected(Q1, t2, c) == Copied(Q1, Append(t2, Called("ecp_ptjac_copy", c)), c)
        Added(Q1, t2, a) ==
            IF a.ret # RET_OK
            THEN [ret |-> a.ret, Q |-> Q1, trace |-> t2, fuel |-> a.fuel]
            ELSE Selected(Q1, t2,
                          ecp_ptjac_copy(Q1[0], Q1[CopySource(m, pos)], a.fuel))
        Summed(d, t1, a) ==
            Added([Q EXCEPT ![0] = d.R, ![1] = a.R],
                  Append(t1, Called("ecp_add_mixed", a)), a)
        Doubled(t1, d) ==
            IF d.ret # RET_OK
            THEN [ret |-> d.ret, Q |-> [Q EXCEPT ![0] = d.R], trace |-> t1,
                  fuel |-> d.fuel]
            ELSE Summed(d, t1, ecp_add_mixed(g, Q[1], d.R, P, d.fuel))
        Double(d) == Doubled(Append(trace, Called("ecp_double_jac", d)), d)
    IN  Double(ecp_double_jac(g, Q[0], Q[0], fuel))

MulLocals == {"Q[0]", "Q[1]"}

MulFreed == {"Q[0]", "Q[1]"}

\* the return code of ecp_ptjac_set_zero( &Q[0] ) is not looked at: the loop
\* starts from whatever the call left in Q[0]
ecp_mul(g, R, m, P, fuel) ==
    IF m = 0
    THEN [ret |-> RET_OK, R |-> ecp_set_zero(R), trace |-> << >>,
          fuel |-> fuel, live |-> MulLocals \ MulFreed]
    ELSE LET Projected(l, a) ==
                 [ret |-> a.ret, R |-> a.R,
                  trace |-> Append(l.trace, Projection(a, l.Q[0])),
                  fuel |-> a.fuel, live |-> MulLocals \ MulFreed]
             Looped(l) ==
                 IF l.ret # RET_OK
                 THEN [ret |-> l.ret, R |-> R, trace |-> l.trace,
                       fuel |-> l.fuel, live |-> MulLocals \ MulFreed]
                 ELSE Projected(l, ecp_jac_to_aff(g, R, l.Q[0], l.fuel))
             Started(z) ==
                 Looped(MulLoop(g, m, P,
                                [i \in 0 .. 1 |-> IF i = 0 THEN z.R ELSE ecp_ptjac_init],
                                mpi_msb(m) - 1,
                                << Called("ecp_ptjac_set_zero", z) >>, z.fuel))
         IN  Started(ecp_ptjac_set_zero(ecp_ptjac_init, fuel))

-----------------------------------------------------------------------------
(* Named curves *)

CurveIds == {"SECP192R1", "SECP224R1", "SECP256R1", "SECP384R1", "SECP521R1"}

\* an index that names no curve
UnknownId == "UNKNOWN"

\* stand-ins for the hex tables POLARSSL_ECP_<id>_{P,B,GX,GY,N}
KnownDP ==
    [SECP192R1 |-> [P |-> 5,   B |-> 1,  GX |-> 0, GY |-> 1,  N |-> 7],
     SECP224R1 |-> [P |-> 7,   B |-> 1,  GX |-> 0, GY |-> 1,  N |-> 5],
     SECP256R1 |-> [P |-> 7,   B |-> 6,  GX |-> 1, GY |-> 2,  N |-> 11],
     SECP384R1 |-> [P |-> 17,  B |-> 3,  GX |-> 1, GY |-> 1,  N |-> 23],
     SECP521R1 |-> [P |-> 127, B |-> 72, GX |-> 0, GY |-> 31, N |-> 137]]

\* parameters a caller hands to ecp_group_read_string itself: a curve of
\* even order 10, with the point (3, 0) of order 2
CallerDP == [P |-> 11, B |-> 4, GX |-> 0, GY |-> 2, N |-> 10]

ReadDP(g, dp) == ecp_group_read_string(g, dp.P, dp.B, dp.GX, dp.GY, dp.N)

ecp_use_known_dp(g, index) ==
    CASE index = "SECP192R1" -> [ret |-> RET_OK, grp |-> ReadDP(g, KnownDP[index])]
      [] index = "SECP224R1" -> [ret |-> RET_OK, grp |-> ReadDP(g, KnownDP[index])]
      [] index = "SECP256R1" -> [ret |-> RET_OK, grp |-> ReadDP(g, KnownDP[index])]
      [] index = "SECP384R1" -> [ret |-> RET_OK, grp |-> ReadDP(g, KnownDP[index])]
      [] index = "SECP521R1" ->
            [ret |-> RET_OK,
             grp |-> ReadDP([g EXCEPT !.modp = "ecp_mod_p521", !.pbits = P521_BITS],
                            KnownDP[index])]
      [] OTHER -> [ret |-> POLARSSL_ERR_ECP_GENERIC, grp |-> g]

-----------------------------------------------------------------------------
(* The group law, for reference: affine chord and tangent over GF(p) *)

Zero == [is_zero |-> TRUE, X |-> 0, Y |-> 0]

FieldInv(a, p) == CHOOSE x \in 1 .. p - 1 : (a * x) % p = 1

OnCurve(g, pt) ==
    \/ pt.is_zero
    \/ /\ pt.X \in 0 .. g.P - 1
       /\ pt.Y \in 0 .. g.P - 1
       /\ (pt.Y * pt.Y) % g.P = (pt.X * pt.X * pt.X - 3 * pt.X + g.B) % g.P

Neg(g, pt) == IF pt.is_zero THEN Zero ELSE Point(pt.X, (g.P - pt.Y) % g.P)

RefAdd(g, P, Q) ==
    IF P.is_zero THEN (IF Q.is_zero THEN Zero ELSE Q)
    ELSE IF Q.is_zero THEN P
    ELSE IF P.X = Q.X /\ (P.Y + Q.Y) % g.P = 0 THEN Zero
    ELSE LET l == IF P.X = Q.X
                  THEN ((3 * P.X * P.X - 3) * FieldInv((2 * P.Y) % g.P, g.P)) % g.P
                  ELSE ((Q.Y - P.Y) * FieldInv((Q.X - P.X) % g.P, g.P)) % g.P
             x == (l * l - P.X - Q.X) % g.P
         IN  Point(x, (l * (P.X - x) - P.Y) % g.P)

\* the k-fold sum P + ... + P
RECURSIVE RefMul(_, _, _)
RefMul(g, k, P) == IF k = 0 THEN Zero ELSE RefAdd(g, RefMul(g, k - 1, P), P)

-----------------------------------------------------------------------------
(* Inputs *)

Coords(p) == {c \in 0 .. p - 1 : c <= CoordSpan \/ c >= p - CoordSpan}

\* points with both coordinates in [0, p), on the curve or not
RangePts(g) == {Point(x, y) : x \in Coords(g.P), y \in Coords(g.P)}

\* points of the curve, the zero point and the generator among them
CurvePts(g) ==
    {pt \in {Point(x, y) : x \in Coords(g.P), y \in 0 .. g.P - 1} : OnCurve(g, pt)}
        \cup {Zero, g.G}

AddInputs(g) ==
    (CurvePts(g) \X CurvePts(g))
        \cup (RangePts(g) \X {Zero}) \cup ({Zero} \X RangePts(g))

-----------------------------------------------------------------------------
(* One group slot and its caller *)

GroupOps ==
    {"ecp_group_init", "ecp_group_free", "ecp_use_known_dp", "ecp_group_read_string"}

NoCall ==
    [op |-> "none", id |-> "", ret |-> RET_OK, k |-> 0, prev |-> -1,
     P |-> Zero, Q |-> Zero, R |-> Zero, trace |-> << >>,
     fuel |-> NoFault, left |-> NoFault, live |-> {},
     N |-> 0, reduced |-> 0]

\* the group holds parameters (P is a prime, not a freed mpi)
Loaded(g) == g.P # 0

\* the build is fixed once and for all
Compiled == build' \in (IF build = NoBuild THEN Builds ELSE {build})

EcpGroupInit ==
    /\ grp' = ecp_group_init
    /\ call' = [NoCall EXCEPT !.op = "ecp_group_init"]
    /\ Compiled
    /\ UNCHANGED <<cacheVars, aesVars>>

EcpGroupFree ==
    /\ grp' = ecp_group_free(grp)
    /\ call' = [NoCall EXCEPT !.op = "ecp_group_free"]
    /\ Compiled
    /\ UNCHANGED <<cacheVars, aesVars>>

EcpUseKnownDp ==
    \E index \in CurveIds \cup {UnknownId} :
        LET r == ecp_use_known_dp(grp, index)
        IN  /\ grp' = r.grp
            /\ call' = [NoCall EXCEPT !.op = "ecp_use_known_dp",
                                      !.id = index, !.ret = r.ret]
            /\ Compiled
            /\ UNCHANGED <<cacheVars, aesVars>>

EcpGroupReadString ==
    /\ grp' = ReadDP(grp, CallerDP)
    /\ call' = [NoCall EXCEPT !.op = "ecp_group_read_string"]
    /\ Compiled
    /\ UNCHANGED <<cacheVars, aesVars>>

\* ecp_add and ecp_mul take the group as const and write only the caller's
\* R: one call after each group operation reaches every state they can reach
EcpAdd ==
    /\ Loaded(grp)
    /\ call.op \in GroupOps
    /\ \E in \in AddInputs(grp) :
          \E r \in {ecp_add(grp, ecp_point_init, in[1], in[2], NoFault)} :
              call' = [NoCall EXCEPT !.op = "ecp_add", !.ret = r.ret,
                                     !.P = in[1], !.Q = in[2],
                                     !.R = r.R, !.trace = r.trace,
                                     !.left = r.fuel, !.live = r.live]
    /\ UNCHANGED <<grp, build, cacheVars, aesVars>>

EcpMul ==
    /\ Loaded(grp)
    /\ call.op \in GroupOps
    /\ \E k \in 0 .. MaxK, P \in CurvePts(grp) :
          \E r \in {ecp_mul(grp, ecp_point_init, k, P, NoFault)} :
              call' = [NoCall EXCEPT !.op = "ecp_mul", !.ret = r.ret,
                                     !.k = k, !.P = P,
                                     !.R = r.R, !.trace = r.trace,
                                     !.left = r.fuel, !.live = r.live]
    /\ UNCHANGED <<grp, build, cacheVars, aesVars>>

\* the result of b * G is multiplied again: R = a * (b * G)
EcpMulAgain ==
    /\ Loaded(grp)
    /\ call.op = "ecp_mul" /\ call.prev = -1
    /\ call.ret = RET_OK /\ call.P = grp.G
    /\ \E a \in 0 .. MaxK :
          \E r \in {ecp_mul(grp, ecp_point_init, a, call.R, NoFault)} :
              call' = [NoCall EXCEPT !.op = "ecp_mul", !.ret = r.ret,
                                     !.k = a, !.prev = call.k, !.P = call.R,
                                     !.R = r.R, !.trace = r.trace,
                                     !.left = r.fuel, !.live = r.live]
    /\ UNCHANGED <<grp, build, cacheVars, aesVars>>

\* the generator, its opposite and the zero point
ShortPts(g) == {pt \in CurvePts(g) : pt.is_zero \/ pt.X = g.G.X}

\* ecp_add when memory runs out at one of its first MaxFuel + 1 statements
EcpAddShort ==
    /\ Loaded(grp)
    /\ call.op \in GroupOps
    /\ \E P \in ShortPts(grp), Q \in ShortPts(grp), fuel \in 0 .. MaxFuel :
          \E r \in {ecp_add(grp, ecp_point_init, P, Q, fuel)} :
              call' = [NoCall EXCEPT !.op = "ecp_add", !.ret = r.ret,
                                     !.P = P, !.Q = Q,
                                     !.R = r.R, !.trace = r.trace,
                                     !.fuel = fuel, !.left = r.fuel,
                                     !.live = r.live]
    /\ UNCHANGED <<grp, build, cacheVars, aesVars>>

\* ecp_mul of the generator when memory runs out
EcpMulShort ==
    /\ Loaded(grp)
    /\ call.op \in GroupOps
    /\ \E k \in 0 .. MaxShortK, fuel \in 0 .. MaxFuel :
          \E r \in {ecp_mul(grp, ecp_point_init, k, grp.G, fuel)} :
              call' = [NoCall EXCEPT !.op = "ecp_mul", !.ret = r.ret,
                                     !.k = k, !.P = grp.G,
                                     !.R = r.R, !.trace = r.trace,
                                     !.fuel = fuel, !.left = r.fuel,
                                     !.live = r.live]
    /\ UNCHANGED <<grp, build, cacheVars, aesVars>>

\* what MOD_MUL may be handed: the products of two coordinates, and values
\* within MaxOver of either end of the range ecp_modp accepts
ModpInputs(g) ==
    -MaxOver ..
        (IF g.modp = "NULL" THEN g.P * g.P ELSE Pow2(2 * g.pbits)) + MaxOver

\* ecp_modp( &N, grp ), as MOD_MUL calls it
EcpModp ==
    /\ Loaded(grp)
    /\ call.op \in GroupOps
    /\ \E N \in ModpInputs(grp) :
          \E r \in {ecp_modp(N, grp)} :
              call' = [NoCall EXCEPT !.op = "ecp_modp", !.ret = r.ret,
                                     !.N = N, !.reduced = r.N]
    /\ UNCHANGED <<grp, build, cacheVars, aesVars>>

-----------------------------------------------------------------------------
(* The session cache: cache->sessions is a uthash table, which is also a    *)
(* list of its entries in the order they were added                          *)

\* seconds; 86400 in ssl_cache.h
SSL_CACHE_DEFAULT_TIMEOUT == 1
\* entries; 50 in ssl_cache.h
SSL_CACHE_DEFAULT_MAX_ENTRIES == 2
\* bytes of ssl_session.id; 32 in ssl.h
IdSize == 2

Ids == [1 .. IdSize -> 0 .. MaxByte]

\* the sessions callers hand in; the first byte of every id is 0, and so
\* are the bytes after its length
Sessions ==
    {s \in [id : {i \in Ids : i[1] = 0}, length : 1 .. IdSize, ciphersuite : {1},
            compression : {0}, master : 1 .. MaxMaster, peer_cert : {"CERT"}] :
        \A j \in s.length + 1 .. IdSize : s.id[j] = 0}

\* the sessions callers look up: the id, its length, the ciphersuite and the
\* compression of the handshake, and no master secret yet
Queries ==
    {s \in [id : {i \in Ids : i[1] = 0}, length : 1 .. IdSize,
            ciphersuite : {1, 2}, compression : {0, 1}, master : {0},
            peer_cert : {"NULL"}] :
        /\ \A j \in s.length + 1 .. IdSize : s.id[j] = 0
        /\ (s.ciphersuite = 1 \/ s.compression = 0)}

\* memset( &session, 0, sizeof( ssl_session ) )
ZeroSession ==
    [id |-> [i \in 1 .. IdSize |-> 0], length |-> 0, ciphersuite |-> 0,
     compression |-> 0, master |-> 0, peer_cert |-> "NULL"]

\* the first len bytes at id
KeyBytes(id, len) == SubSeq(id, 1, len)

\* the entry found under the key, as its place in the list; 0 for none.
\* hh.keylen is fixed when the entry is added, the key bytes are read from
\* the entry
HASH_FIND(head, id, len) ==
    IF \E i \in 1 .. Len(head) :
            /\ head[i].keylen = len
            /\ KeyBytes(head[i].session.id, len) = KeyBytes(id, len)
    THEN CHOOSE i \in 1 .. Len(head) :
            /\ head[i].keylen = len
            /\ KeyBytes(head[i].session.id, len) = KeyBytes(id, len)
    ELSE 0

HASH_DEL(head, i) == SubSeq(head, 1, i - 1) \o SubSeq(head, i + 1, Len(head))

\* HASH_ADD( hh, head, session.id, keylen, add ): appended to the list
HASH_ADD(head, keylen, add) == Append(head, [add EXCEPT !.keylen = keylen])

HASH_COUNT(head) == Len(head)

\* memcpy of the session, then peer_cert = NULL
Stored(session) == [session EXCEPT !.peer_cert = "NULL"]

\* mutant: an entry expires when its age reaches the timeout
Expired_AtTimeout(entry, t) == timeout # 0 /\ t - entry.timestamp >= timeout

\* mutant: no entry ever expires
Expired_Never(entry, t) == FALSE

Expired(entry, t) == timeout # 0 /\ t - entry.timestamp > timeout

\* mutant: the newest entry is reused
ReusedEntry_Newest(head) == Len(head)

\* the entry reused when max_entries is reached: cache->sessions, the head
ReusedEntry(head) == 1

\* mutant: the update refreshes the timestamp
UpdatedEntry_Touched(entry, session, t) ==
    [entry EXCEPT !.session = Stored(session), !.timestamp = t]

\* an entry that has not expired is overwritten where it is
UpdatedEntry(entry, session, t) == [entry EXCEPT !.session = Stored(session)]

\* the branch ssl_cache_set( cache, session ) takes at time t
SetPath(session, t) ==
    LET i == HASH_FIND(sessions, session.id, session.length)
    IN  IF i = 0
        THEN IF max_entries > 0 /\ HASH_COUNT(sessions) >= max_entries
             THEN "reuse" ELSE "malloc"
        ELSE IF ~Expired(sessions[i], t) THEN "update" ELSE "expired"

\* the list after ssl_cache_set( cache, session ) at time t that returns 0
SetSessions(session, t) ==
    LET i == HASH_FIND(sessions, session.id, session.length)
        path == SetPath(session, t)
    IN  CASE path = "reuse" ->
                LET e == ReusedEntry(sessions)
                    entry == [sessions[e] EXCEPT !.timestamp = t,
                                                 !.session = Stored(session)]
                IN  HASH_ADD(HASH_DEL(sessions, e), entry.session.length, entry)
          [] path = "malloc" ->
                LET entry == [timestamp |-> t, keylen |-> 0,
                              session |-> Stored(session)]
                IN  HASH_ADD(sessions, entry.session.length, entry)
          [] path = "update" ->
                [sessions EXCEPT ![i] = UpdatedEntry(sessions[i], session, t)]
          [] path = "expired" ->
                LET entry == [sessions[i] EXCEPT !.timestamp = t,
                                                 !.session = Stored(session)]
                IN  HASH_ADD(HASH_DEL(sessions, i), entry.session.length, entry)

\* the last call on the cache: its argument, the time it read (0 if it
\* read none), the branch taken, the return code and the caller's session
\* afterwards
Called0(op) ==
    [op |-> op, session |-> ZeroSession, t |-> 0, path |-> "", ret |-> 0,
     out |-> ZeroSession]

ssl_cache_init ==
    /\ sessions' = << >>
    /\ timeout' = SSL_CACHE_DEFAULT_TIMEOUT
    /\ max_entries' = SSL_CACHE_DEFAULT_MAX_ENTRIES
    /\ ccall' = Called0("ssl_cache_init")
    /\ UNCHANGED <<now, ecpVars, aesVars>>

ssl_cache_get(session) ==
    LET i == HASH_FIND(sessions, session.id, session.length)
        path == IF i = 0 THEN "miss"
                ELSE IF Expired(sessions[i], now) THEN "expired"
                ELSE IF \/ session.ciphersuite # sessions[i].session.ciphersuite
                        \/ session.compression # sessions[i].session.compression
                        \/ session.length # sessions[i].session.length
                     THEN "changed"
                ELSE IF KeyBytes(session.id, sessions[i].session.length)
                          # KeyBytes(sessions[i].session.id, sessions[i].session.length)
                     THEN "collision"
                ELSE "hit"
    IN  /\ ccall' = [op |-> "ssl_cache_get", session |-> session, t |-> now,
                     path |-> path,
                     ret |-> IF path = "hit" THEN 0 ELSE 1,
                     out |-> IF path = "hit"
                             THEN [session EXCEPT !.master = sessions[i].session.master]
                             ELSE session]
        /\ UNCHANGED <<sessions, timeout, max_entries, now, ecpVars, aesVars>>

ssl_cache_set(session) ==
    /\ \/ /\ sessions' = SetSessions(session, now)
          /\ ccall' = [op |-> "ssl_cache_set", session |-> session, t |-> now,
                       path |-> SetPath(session, now), ret |-> 0, out |-> session]
       \/ /\ SetPath(session, now) = "malloc"
          /\ ccall' = [op |-> "ssl_cache_set", session |-> session, t |-> now,
                       path |-> "malloc failed", ret |-> 1, out |-> session]
          /\ UNCHANGED sessions
    /\ UNCHANGED <<timeout, max_entries, now, ecpVars, aesVars>>

ssl_cache_set_timeout(t) ==
    /\ timeout' = IF t < 0 THEN 0 ELSE t
    /\ ccall' = Called0("ssl_cache_set_timeout")
    /\ UNCHANGED <<sessions, max_entries, now, ecpVars, aesVars>>

ssl_cache_set_max_entries(max) ==
    /\ max_entries' = IF max < 0 THEN 0 ELSE max
    /\ ccall' = Called0("ssl_cache_set_max_entries")
    /\ UNCHANGED <<sessions, timeout, now, ecpVars, aesVars>>

ssl_cache_free ==
    /\ sessions' = << >>
    /\ ccall' = Called0("ssl_cache_free")
    /\ UNCHANGED <<timeout, max_entries, now, ecpVars, aesVars>>

\* time( NULL ) does not go back
Tick ==
    /\ now < MaxTime
    /\ now' = now + 1
    /\ UNCHANGED <<sessions, timeout, max_entries, ccall, ecpVars, aesVars>>

CacheGet == \E session \in Queries : ssl_cache_get(session)
CacheSet == \E session \in Sessions : ssl_cache_set(session)
CacheSetTimeout == \E t \in -1 .. MaxTimeout : ssl_cache_set_timeout(t)
CacheSetMaxEntries == \E max \in -1 .. MaxEntries : ssl_cache_set_max_entries(max)

-----------------------------------------------------------------------------
(* The AES-NI probe.  A uint32_t is modelled by the set of its bits that    *)
(* are 1                                                                     *)

\* 0xdeadbabe: flags before the first probe
FLAGS_UNSET ==
    {1, 2, 3, 4, 5, 7, 9, 11, 12, 13, 15, 16, 18, 19, 21, 23, 25, 26, 27, 28, 30, 31}

\* 0x2000000: the AES bit of ECX, CPUID leaf 1
AESNI_BIT == 25

BitAnd(a, b) == a \cap b

\* the int a word without bit 31 converts to
RECURSIVE ToInt(_)
ToInt(w) ==
    IF w = {} THEN 0
    ELSE Pow2(CHOOSE b \in w : TRUE) + ToInt(w \ {CHOOSE b \in w : TRUE})

\* ECX of leaf 1: SSE3, PCLMULQDQ, AES, AVX in any combination, and the one
\* word that equals flags before the first probe
EcxValues == (SUBSET {0, 1, AESNI_BIT, 28}) \cup {FLAGS_UNSET}

\* the processors the process can run on: with CPUID leaf 1 and some ECX,
\* or without leaf 1 (and without AES-NI)
Cpus ==
    [read : {TRUE}, leaf1 : {TRUE}, ecx : EcxValues]
        \cup {[read |-> TRUE, leaf1 |-> FALSE, ecx |-> {}]}

\* the processor is fixed for the process; the model draws it when the
\* first probe reads it
NoCpu == [read |-> FALSE, leaf1 |-> FALSE, ecx |-> {}]

\* regs[2] after __get_cpuid( 1, ... ), whose return value is not looked
\* at: without leaf 1 regs is not written and holds what the stack held
get_cpuid(c, stack) == IF c.leaf1 THEN c.ecx ELSE stack

NoCalls == [op |-> "none", probed |-> FALSE, rets |-> << >>]

aesni_supported ==
    /\ Len(acall.rets) < MaxCalls
    /\ \E c \in (IF cpu.read THEN {cpu} ELSE Cpus), stack \in EcxValues :
          \E f \in {IF flags = FLAGS_UNSET THEN get_cpuid(c, stack) ELSE flags} :
              /\ flags' = f
              /\ cpu' = c
              /\ acall' = [op |-> "aesni_supported",
                           probed |-> flags = FLAGS_UNSET,
                           rets |-> Append(acall.rets,
                                           ToInt(BitAnd(f, {AESNI_BIT})))]
    /\ UNCHANGED <<ecpVars, cacheVars>>

-----------------------------------------------------------------------------
(* Specifications *)

EcpInit ==
    /\ grp = ecp_group_init
    /\ build = NoBuild
    /\ call = [NoCall EXCEPT !.op = "ecp_group_init"]

CacheInit ==
    /\ sessions = << >>
    /\ timeout = SSL_CACHE_DEFAULT_TIMEOUT
    /\ max_entries = SSL_CACHE_DEFAULT_MAX_ENTRIES
    /\ now = 0
    /\ ccall = Called0("ssl_cache_init")

AesInit ==
    /\ flags = FLAGS_UNSET
    /\ cpu = NoCpu
    /\ acall = NoCalls

Init == EcpInit /\ CacheInit /\ AesInit

\* the elliptic curve engine
Next ==
    \/ EcpGroupInit
    \/ EcpGroupFree
    \/ EcpUseKnownDp
    \/ EcpGroupReadString
    \/ EcpAdd
    \/ EcpMul
    \/ EcpMulAgain

Spec == Init /\ [][Next]_vars

\* the session cache
CacheNext ==
    \/ ssl_cache_init
    \/ CacheGet
    \/ CacheSet
    \/ CacheSetTimeout
    \/ CacheSetMaxEntries
    \/ ssl_cache_free
    \/ Tick

CacheSpec == Init /\ [][CacheNext]_vars

\* the elliptic curve engine when memory runs out
ShortNext ==
    \/ EcpGroupInit
    \/ EcpGroupFree
    \/ EcpUseKnownDp
    \/ EcpGroupReadString
    \/ EcpAddShort
    \/ EcpMulShort

ShortSpec == Init /\ [][ShortNext]_vars

\* the reduction modulo p alone
ModpNext ==
    \/ EcpGroupInit
    \/ EcpGroupFree
    \/ EcpUseKnownDp
    \/ EcpGroupReadString
    \/ EcpModp

ModpSpec == Init /\ [][ModpNext]_vars

\* the AES-NI probe
AesNext == aesni_supported

AesSpec == Init /\ [][AesNext]_vars

-----------------------------------------------------------------------------
(* Claims *)

\* C1: for every group, every point P of the curve (the zero point too) and
\* every scalar k >= 0, ecp_mul succeeds with R = k * P, the k-fold sum of P
\* under the group law; so k = 0 gives the zero point and k = 1 gives P
C1_MulIsKFoldSum ==
    (call.op = "ecp_mul" /\ OnCurve(grp, call.P)) =>
        /\ call.ret = RET_OK
        /\ call.R = RefMul(grp, call.k, call.P)
        /\ (call.k = 0 => call.R.is_zero)
        /\ (call.k = 1 => call.R = call.P)

InRange(g, pt) == pt.is_zero \/ (pt.X \in 0 .. g.P - 1 /\ pt.Y \in 0 .. g.P - 1)

\* C2: the zero point is the identity of ecp_add: for every P with
\* coordinates in [0, p), P + zero and zero + P succeed with R = P (flag
\* and coordinates), and zero + zero is the zero point
C2_ZeroIsIdentity ==
    (call.op = "ecp_add" /\ InRange(grp, call.P) /\ InRange(grp, call.Q)) =>
        /\ call.Q.is_zero => (call.ret = RET_OK /\ call.R = call.P)
        /\ call.P.is_zero => (call.ret = RET_OK /\ call.R = call.Q)
        /\ (call.P.is_zero /\ call.Q.is_zero) => call.R.is_zero

C2_Witness ==
    /\ call.op = "ecp_add" /\ call.ret = RET_OK
    /\ call.P.is_zero /\ ~call.Q.is_zero /\ ~OnCurve(grp, call.Q)
    /\ call.R = call.Q

\* C3: for every non-zero point P = (X, Y) of the curve, P + (X, (p - Y) mod p)
\* succeeds with the zero point; when Y = 0 the second operand is P itself
\* and the result is the one ecp_double_jac leaves
C3_InverseGivesZero ==
    (/\ call.op = "ecp_add" /\ ~call.P.is_zero
     /\ OnCurve(grp, call.P) /\ call.Q = Neg(grp, call.P)) =>
        /\ call.ret = RET_OK
        /\ call.R.is_zero
        /\ call.P.Y = 0 =>
              /\ call.Q = call.P
              /\ call.trace[2].J =
                    ecp_double_jac(grp, ecp_ptjac_init,
                                   Jac(call.P.X, call.P.Y, 1), NoFault).R

C3_Witness ==
    /\ call.op = "ecp_add" /\ call.ret = RET_OK
    /\ ~call.P.is_zero /\ OnCurve(grp, call.P)
    /\ call.P.Y = 0 /\ call.Q = call.P
    /\ call.R.is_zero

\* the doubling formula on P lifted to Jacobian coordinates, projected back
DoubledAffine(g, P) ==
    ecp_jac_to_aff(g, ecp_point_init,
        ecp_double_jac(g, ecp_ptjac_init,
                       ecp_aff_to_jac(ecp_ptjac_init, P, NoFault).R,
                       NoFault).R,
        NoFault)

\* C4: for every non-zero point P of the curve, ecp_add(P, P) and
\* ecp_mul(2, P) succeed with the same affine point, which is the doubling
\* formula's result projected to affine
C4_AddEqualsDouble ==
    /\ (/\ call.op = "ecp_add" /\ ~call.P.is_zero
        /\ OnCurve(grp, call.P) /\ call.Q = call.P) =>
            /\ call.ret = RET_OK
            /\ ecp_mul(grp, ecp_point_init, 2, call.P, NoFault).ret = RET_OK
            /\ call.R = ecp_mul(grp, ecp_point_init, 2, call.P, NoFault).R
            /\ call.R = DoubledAffine(grp, call.P).R
    /\ (/\ call.op = "ecp_mul" /\ ~call.P.is_zero
        /\ OnCurve(grp, call.P) /\ call.k = 2) =>
            /\ call.ret = RET_OK
            /\ call.R = ecp_add(grp, ecp_point_init, call.P, call.P, NoFault).R
            /\ call.R = DoubledAffine(grp, call.P).R

C4_Witness ==
    /\ call.op = "ecp_add" /\ call.ret = RET_OK
    /\ ~call.P.is_zero /\ OnCurve(grp, call.P) /\ call.Q = call.P
    /\ call.P.Y # 0 /\ ~call.R.is_zero
    /\ call.trace[2].J.Z # 1

\* C5: with G of order n, a * (b * G), computed by feeding the result of
\* ecp_mul(b, G) to ecp_mul(a, .), is the point ecp_mul((a * b) mod n, G)
\* gives, and the point b * (a * G) gives
C5_ScalarsCommute ==
    (call.op = "ecp_mul" /\ call.prev # -1) =>
        LET a == call.k
            b == call.prev
            direct == ecp_mul(grp, ecp_point_init, (a * b) % grp.N, grp.G, NoFault)
            aG == ecp_mul(grp, ecp_point_init, a, grp.G, NoFault)
            other == ecp_mul(grp, ecp_point_init, b, aG.R, NoFault)
        IN  /\ call.ret = RET_OK
            /\ direct.ret = RET_OK /\ call.R = direct.R
            /\ aG.ret = RET_OK /\ other.ret = RET_OK /\ call.R = other.R

\* C6: with input coordinates in [0, p), every Jacobian point that
\* ecp_double_jac or ecp_add_mixed returns with success has X, Y, Z in [0, p),
\* and every non-zero result of a successful ecp_add or ecp_mul has X, Y in
\* [0, p), under generic and under fast reduction
C6_ReducedCoordinates ==
    (call.op \in {"ecp_add", "ecp_mul"}
        /\ InRange(grp, call.P) /\ InRange(grp, call.Q)) =>
        /\ \A i \in 1 .. Len(call.trace) :
              (/\ call.trace[i].op \in {"ecp_double_jac", "ecp_add_mixed"}
               /\ call.trace[i].ret = RET_OK) =>
                    /\ call.trace[i].J.X \in 0 .. grp.P - 1
                    /\ call.trace[i].J.Y \in 0 .. grp.P - 1
                    /\ call.trace[i].J.Z \in 0 .. grp.P - 1
        /\ (call.ret = RET_OK /\ ~call.R.is_zero) =>
              /\ call.R.X \in 0 .. grp.P - 1
              /\ call.R.Y \in 0 .. grp.P - 1

C6_Witness ==
    /\ call.op = "ecp_mul" /\ call.ret = RET_OK
    /\ grp.modp = "ecp_mod_p521" /\ grp.P = KnownDP["SECP521R1"].P
    /\ call.k >= 5 /\ ~call.P.is_zero /\ ~call.R.is_zero
    /\ \E i \in 1 .. Len(call.trace) :
          call.trace[i].op = "ecp_double_jac" /\ call.trace[i].J.Z > 1

\* C7: when the last ecp_use_known_dp succeeded, modp is the P-521 reduction
\* with pbits that of P-521 exactly if the id was SECP521R1, and modp is
\* absent for the other four ids
C7_ModpMatchesCurve ==
    (call.op = "ecp_use_known_dp" /\ call.ret = RET_OK) =>
        /\ (grp.modp = "ecp_mod_p521" /\ grp.pbits = P521_BITS)
              <=> call.id = "SECP521R1"
        /\ call.id # "SECP521R1" => grp.modp = "NULL"

\* C8: ssl_cache_set with an id that is not in the cache, when the cache
\* holds max_entries > 0 entries, removes exactly the entry at the head of
\* the list, the one added earliest and with the oldest timestamp, keeps
\* every other entry as it is and in order, and appends the new session at
\* the tail; the number of entries does not change
C8_EvictsOldest ==
    [][LET s == ccall'.session IN
         (/\ ccall'.op = "ssl_cache_set"
          /\ ssl_cache_set(s)
          /\ HASH_FIND(sessions, s.id, s.length) = 0
          /\ max_entries > 0
          /\ HASH_COUNT(sessions) = max_entries) =>
            /\ ccall'.ret = 0
            /\ Len(sessions') = Len(sessions)
            /\ \A i \in 2 .. Len(sessions) : sessions'[i - 1] = sessions[i]
            /\ sessions'[Len(sessions')] =
                  [timestamp |-> now, keylen |-> s.length, session |-> Stored(s)]
            /\ \A i \in 1 .. Len(sessions) :
                  sessions[1].timestamp <= sessions[i].timestamp
            /\ HASH_FIND(sessions', sessions[1].session.id, sessions[1].keylen) = 0
      ]_vars

C8_Witness ==
    /\ ccall.op = "ssl_cache_set" /\ ccall.path = "reuse" /\ ccall.ret = 0
    /\ max_entries >= 2 /\ Len(sessions) = max_entries
    /\ sessions[Len(sessions)].session = Stored(ccall.session)
    /\ sessions[1].timestamp < sessions[Len(sessions)].timestamp

\* C9: after any sequence of calls, if max_entries > 0 the cache holds at
\* most max_entries entries
C9_AtMostMaxEntries == max_entries > 0 => HASH_COUNT(sessions) <= max_entries

Sorted(head) ==
    \A i, j \in 1 .. Len(head) : i < j => head[i].timestamp <= head[j].timestamp

\* C10: ssl_cache_set on an id in the cache leaves the entry where it is,
\* with its timestamp, when it has not expired; when it has expired the
\* entry gets the current time and goes to the tail, keyed by its own id and
\* length. With a clock that does not go back, the entries in list order
\* have non-decreasing timestamps after every call
C10_UpdateKeepsOrder ==
    [][/\ LET s == ccall'.session
                i == HASH_FIND(sessions, s.id, s.length)
                n == Len(sessions')
            IN  (ccall'.op = "ssl_cache_set" /\ ssl_cache_set(s) /\ i # 0) =>
                  IF ~Expired(sessions[i], now)
                  THEN /\ Len(sessions') = Len(sessions)
                       /\ \A j \in 1 .. Len(sessions) :
                             j # i => sessions'[j] = sessions[j]
                       /\ sessions'[i] = [sessions[i] EXCEPT !.session = Stored(s)]
                  ELSE /\ SubSeq(sessions', 1, n - 1) = HASH_DEL(sessions, i)
                       /\ n = Len(sessions)
                       /\ sessions'[n].timestamp = now
                       /\ sessions'[n].session = Stored(s)
                       /\ sessions'[n].keylen = sessions'[n].session.length
                       /\ HASH_FIND(sessions', sessions'[n].session.id,
                                    sessions'[n].session.length) = n
       /\ Sorted(sessions')
      ]_vars

C10_Witness ==
    /\ ccall.op = "ssl_cache_set" /\ ccall.path = "expired" /\ ccall.ret = 0
    /\ Len(sessions) >= 2
    /\ sessions[Len(sessions)].timestamp = now
    /\ sessions[Len(sessions)].session = Stored(ccall.session)
    /\ sessions[1].timestamp < now

\* the entry holds the session the query asks for: the same id over the same
\* length, the same ciphersuite and compression
Matches(entry, q) ==
    /\ entry.session.length = q.length
    /\ KeyBytes(entry.session.id, q.length) = KeyBytes(q.id, q.length)
    /\ entry.session.ciphersuite = q.ciphersuite
    /\ entry.session.compression = q.compression

\* C11: ssl_cache_get returns 0 only for an entry that matches the query in
\* id, id length, ciphersuite and compression and whose age does not exceed
\* a non-zero timeout; with timeout = 0, which a negative argument of
\* ssl_cache_set_timeout also gives, a matching entry of any age is a hit;
\* a miss leaves the caller's session as it was, a hit changes only its
\* master secret, to the stored one; the cache is not changed
C11_GetHitsOnlyLiveMatches ==
    [][/\ LET q == ccall'.session
          IN  (ccall'.op = "ssl_cache_get" /\ ssl_cache_get(q)) =>
                /\ ccall'.ret = 0 =>
                      \E i \in 1 .. Len(sessions) :
                          /\ Matches(sessions[i], q)
                          /\ timeout # 0 => now - sessions[i].timestamp <= timeout
                          /\ ccall'.out =
                                [q EXCEPT !.master = sessions[i].session.master]
                /\ ccall'.ret # 0 => ccall'.out = q
                /\ (timeout = 0 /\ \E i \in 1 .. Len(sessions) :
                                        Matches(sessions[i], q)) => ccall'.ret = 0
                /\ sessions' = sessions
       /\ \A t \in -1 .. MaxTimeout :
              (ssl_cache_set_timeout(t) /\ t < 0) => timeout' = 0
      ]_vars

C11_Witness ==
    /\ ccall.op = "ssl_cache_get" /\ ccall.path = "hit" /\ ccall.ret = 0
    /\ timeout = 0
    /\ ccall.out.master # ccall.session.master
    /\ \E i \in 1 .. Len(sessions) :
          /\ Matches(sessions[i], ccall.session)
          /\ now - sessions[i].timestamp > SSL_CACHE_DEFAULT_TIMEOUT
          /\ ccall.out = [ccall.session EXCEPT !.master = sessions[i].session.master]

\* C12: every call of aesni_supported returns 1 if the processor has AES-NI
\* and 0 if it has not, every call returns what the first call returned, and
\* only the first call probes the processor
C12_SupportedIsMemoized ==
    acall.op = "aesni_supported" =>
        /\ \A i \in 1 .. Len(acall.rets) :
              acall.rets[i] = IF cpu.leaf1 /\ AESNI_BIT \in cpu.ecx THEN 1 ELSE 0
        /\ \A i \in 1 .. Len(acall.rets) : acall.rets[i] = acall.rets[1]
        /\ Len(acall.rets) > 1 => ~acall.probed

\* the query asks for the session s: its id over its length, its
\* ciphersuite and its compression
AsksFor(q, s) ==
    /\ q.length = s.length
    /\ KeyBytes(q.id, q.length) = KeyBytes(s.id, s.length)
    /\ q.ciphersuite = s.ciphersuite
    /\ q.compression = s.compression

\* C13: when ssl_cache_set(s) returned 0 at time t with timeout > 0 and no
\* call on the cache followed it, an ssl_cache_get for s at a time t' with
\* t' - t <= timeout returns 0 and yields s's master secret, whichever
\* branch the set took
C13_HitWithinTimeoutOfSet ==
    [][LET s == ccall.session
           q == ccall'.session
       IN  (/\ ccall.op = "ssl_cache_set" /\ ccall.ret = 0
            /\ timeout > 0
            /\ ccall'.op = "ssl_cache_get" /\ ssl_cache_get(q)
            /\ AsksFor(q, s)
            /\ now - ccall.t <= timeout) =>
                /\ ccall'.ret = 0
                /\ ccall'.out.master = s.master
      ]_vars

\* C13, amended: the lifetime of an entry runs from its timestamp, which a
\* set that finds a non-expired entry under the id does not change.
\* (1) ssl_cache_set(s) that returns 0 leaves an entry for s with s's master
\* secret, not expired, stamped with the current time, or with the stamp it
\* had when s replaced a non-expired entry, and keeps the entries of the
\* other ids when s's id was in the cache; (2) ssl_cache_get,
\* ssl_cache_set_max_entries, a failed ssl_cache_set and the passing of time
\* change neither the entries nor the timeout; (3) ssl_cache_get for an
\* entry whose age does not exceed the timeout returns 0 and yields its
\* master secret; so (4) a get for s right after the set, at a time t' with
\* t' - timestamp <= timeout, returns 0 and yields s's master secret
C13_HitWithinEntryLifetime ==
    [][/\ LET s == ccall'.session
              i == HASH_FIND(sessions, s.id, s.length)
          IN  (ccall'.op = "ssl_cache_set" /\ ssl_cache_set(s) /\ ccall'.ret = 0) =>
                /\ \E j \in 1 .. Len(sessions') :
                      /\ Matches(sessions'[j], s)
                      /\ sessions'[j].session.master = s.master
                      /\ sessions'[j].timestamp =
                            IF i # 0 /\ (timeout = 0
                                         \/ now - sessions[i].timestamp <= timeout)
                            THEN sessions[i].timestamp ELSE now
                      /\ timeout # 0 => now - sessions'[j].timestamp <= timeout
                /\ i # 0 =>
                      \A j \in 1 .. Len(sessions) :
                          j # i => \E k \in 1 .. Len(sessions') :
                                      sessions'[k] = sessions[j]
       /\ (\/ ccall'.op \in {"ssl_cache_get", "ssl_cache_set_max_entries"}
           \/ ccall'.op = "ssl_cache_set" /\ ccall'.ret # 0
           \/ now' # now) =>
                sessions' = sessions /\ timeout' = timeout
       /\ LET q == ccall'.session
          IN  (ccall'.op = "ssl_cache_get" /\ ssl_cache_get(q)) =>
                \A j \in 1 .. Len(sessions) :
                    (/\ Matches(sessions[j], q)
                     /\ (timeout = 0 \/ now - sessions[j].timestamp <= timeout)) =>
                        /\ ccall'.ret = 0
                        /\ ccall'.out.master = sessions[j].session.master
       /\ LET s == ccall.session
              q == ccall'.session
          IN  (/\ ccall.op = "ssl_cache_set" /\ ccall.ret = 0
               /\ timeout > 0
               /\ ccall'.op = "ssl_cache_get" /\ ssl_cache_get(q)
               /\ AsksFor(q, s)
               /\ \E j \in 1 .. Len(sessions) :
                     /\ Matches(sessions[j], q)
                     /\ now - sessions[j].timestamp <= timeout) =>
                    /\ ccall'.ret = 0
                    /\ ccall'.out.master = s.master
      ]_vars

\* a hit on an entry as old as the timeout allows, stamped before the get
C13_Witness ==
    /\ ccall.op = "ssl_cache_get" /\ ccall.path = "hit" /\ ccall.ret = 0
    /\ timeout > 0 /\ now = ccall.t
    /\ \E j \in 1 .. Len(sessions) :
          /\ Matches(sessions[j], ccall.session)
          /\ ccall.t - sessions[j].timestamp = timeout
          /\ ccall.out.master = sessions[j].session.master


\* memory ran out at a statement of the call
RanShort == call.fuel # NoFault /\ call.left = NoFault

\* C14: in ecp_add and ecp_mul and the helpers they call, a failing MPI
\* primitive stops the operation at that step: the point-level call it fails
\* in is the last one made, every MPI initialised locally is freed, and the
\* operation returns the code of the primitive unchanged; no error is ignored
C14_MpiFailureStops ==
    (call.op \in {"ecp_add", "ecp_mul"}) =>
        /\ call.live = {}
        /\ \A i \in 1 .. Len(call.trace) :
              /\ call.trace[i].live = {}
              /\ call.trace[i].ret # RET_OK =>
                    (i = Len(call.trace) /\ call.ret = call.trace[i].ret)
        /\ RanShort => call.ret = POLARSSL_ERR_MPI_MALLOC_FAILED
        /\ call.ret # RET_OK =>
              /\ call.trace # << >>
              /\ call.trace[Len(call.trace)].ret = call.ret


\* the group uses the P-521 style reduction: p = 2^pbits - 1
P521Style(g) == g.modp = "ecp_mod_p521" /\ g.P = Pow2(g.pbits) - 1

\* C15: on a group with the P-521 style reduction, for 0 <= N < 2^(2*pbits)
\* ecp_mod_p521 replaces N by H + L (L the low pbits bits of N, H = N >> pbits),
\* which fits in pbits + 1 bits, and ecp_modp returns N mod p, the value of
\* the generic mpi_mod_mpi; for N < 0 or N >= 2^(2*pbits) ecp_modp returns
\* POLARSSL_ERR_ECP_GENERIC and leaves N as it was
C15_FastReductionIsModP ==
    (call.op = "ecp_modp" /\ P521Style(grp)) =>
        IF 0 <= call.N /\ call.N < Pow2(2 * grp.pbits)
        THEN /\ ecp_mod_p521(call.N).ret = RET_OK
             /\ ecp_mod_p521(call.N).N =
                    (call.N \div Pow2(grp.pbits)) + (call.N % Pow2(grp.pbits))
             /\ ecp_mod_p521(call.N).N < Pow2(grp.pbits + 1)
             /\ call.ret = RET_OK
             /\ call.reduced = call.N % grp.P
             /\ call.reduced = mpi_mod_mpi(call.N, grp.P).N
        ELSE /\ call.ret = POLARSSL_ERR_ECP_GENERIC
             /\ call.reduced = call.N


\* the names of the calls of a trace
Ops(trace) == [i \in 1 .. Len(trace) |-> trace[i].op]

\* n turns of the loop of ecp_mul
RECURSIVE Turns(_)
Turns(n) ==
    IF n = 0 THEN << >>
    ELSE <<"ecp_double_jac", "ecp_add_mixed", "ecp_ptjac_copy">> \o Turns(n - 1)

\* C16: for a fixed group and point P, ecp_mul makes the same sequence of
\* point-level calls for any two scalars k1, k2 >= 1 of the same bit length:
\* after Q[0] is set to zero, for each bit from the top one down to bit 0 one
\* ecp_double_jac, one ecp_add_mixed and one ecp_ptjac_copy, then one
\* ecp_jac_to_aff; the bit chooses only the point the copy takes, the sum
\* (bit 1) or the double (bit 0)
C16_SameCallsForSameLength ==
    (call.op = "ecp_mul" /\ call.k >= 1) =>
        /\ Ops(call.trace) =
              <<"ecp_ptjac_set_zero">> \o Turns(mpi_msb(call.k)) \o <<"ecp_jac_to_aff">>
        /\ \A k2 \in 1 .. MaxK :
              mpi_msb(k2) = mpi_msb(call.k) =>
                  Ops(ecp_mul(grp, ecp_point_init, k2, call.P, NoFault).trace)
                      = Ops(call.trace)
        /\ \A j \in 1 .. mpi_msb(call.k) :
              call.trace[3 * j + 1].J =
                  IF mpi_get_bit(call.k, mpi_msb(call.k) - j) = 1
                  THEN call.trace[3 * j].J
                  ELSE call.trace[3 * j - 1].J

\* 5 = 101b and 6 = 110b give different points by the same calls; at bit 1
\* of 5 the copy takes the double, which is not the sum
C16_Witness ==
    /\ call.op = "ecp_mul" /\ call.ret = RET_OK
    /\ call.k = 5 /\ ~call.P.is_zero
    /\ Len(call.trace) = 11
    /\ call.trace[7].J = call.trace[5].J
    /\ call.trace[5].J # call.trace[6].J
    /\ ecp_mul(grp, ecp_point_init, 6, call.P, NoFault).R # call.R

=============================================================================
